---- MODULE Spec2Model ----
(***************************************************************************)
(* A model of outvoice-api: the invoice pipeline of pdf.py (normalise,     *)
(* paginate, render, assemble), the address book of db.py, the mailer of   *)
(* mailer.py and the two HTTP endpoints of api.py.                         *)
(*                                                                         *)
(* Python values are modelled as follows.                                  *)
(*   dict            a function whose DOMAIN is the set of keys            *)
(*   list            a sequence                                            *)
(*   None            the value None below                                  *)
(*   date string     [fmt, y, m, d]: the components and the format they    *)
(*                   are written in                                        *)
(*   decimal string  [v, dp]: the value in units of 1/1000 and the number  *)
(*                   of digits written after the point                     *)
(*   a call          Ok(value) when it returns, Raise(exception) when it   *)
(*                   raises                                                *)
(***************************************************************************)
EXTENDS Integers, Sequences, FiniteSets, TLC

VARIABLES
    clients_db, \* the rows of table address of clients.db: row -> copies
    files,      \* the files under invoices/: path -> document written
    last,       \* the operation that ran last: its input and its outcome
    connections,        \* the connections to clients.db that are open
    sys_modules,        \* the modules the process has loaded
    font_registrations  \* the calls of register_fonts the process has made

vars == <<clients_db, files, last, connections, sys_modules, font_registrations>>

\* ------------------------------------------------------------- bounds
\* The most line items an invoice request carries.
MaxItems == 23
\* The most copies of one row the address book is let to grow to.
MaxCopies == 2
\* The most connections to clients.db the process is let to hold open.
MaxOpen == 2

\* -------------------------------------------------------- Python values
None == "<None>"

Ok(v) == [ok |-> TRUE, val |-> v]
Raise(e) == [ok |-> FALSE, err |-> e]

\* del d[key]
Del(d, key) == [k \in (DOMAIN d) \ {key} |-> d[k]]
\* d[key] = value
Put(d, key, value) == [k \in (DOMAIN d) \cup {key} |-> IF k = key THEN value ELSE d[k]]

\* d[key]
Get(d, key) == IF key \in DOMAIN d THEN Ok(d[key]) ELSE Raise("KeyError")

\* The rest of a computation after a call that may raise.
Bind(r, F(_)) == IF r.ok THEN F(r.val) ELSE r

\* The rest of a computation after an assignment x = v.
With(v, F(_)) == F(v)

\* The decimal strings: value v/1000 written with dp digits after the point.
Dec(v, dp) == [v |-> v, dp |-> dp]
\* A currency string, "??12.00": no float() reads it.
Cur(symbol, d) == [symbol |-> symbol, v |-> d.v, dp |-> d.dp]

\* float(s): a decimal string parses, anything else raises ValueError.
Float(s) ==
    IF DOMAIN s = {"v", "dp"} THEN Ok(s.v) ELSE Raise("ValueError")

\* str(x) of a float: the shortest decimal that reads back, never fewer than
\* one digit after the point.
Str(x) ==
    Dec(x, IF x % 100 = 0 THEN 1
           ELSE IF x % 10 = 0 THEN 2 ELSE 3)

\* f"{x:.2f}": x rounded to the hundredth.
Fmt2f(x) == Dec(((x + 5) \div 10) * 10, 2)

\* ----------------------------------------------------------- utility.py
generate_absolute_path(relative_path) ==
    [root |-> "path_to_script", rel |-> relative_path]

\* strptime(date_to_format, "%Y-%m-%d") then strftime("%d/%m/%Y")
format_uk_date(date_to_format) ==
    IF date_to_format.fmt = "%Y-%m-%d"
    THEN Ok([date_to_format EXCEPT !.fmt = "%d/%m/%Y"])
    ELSE Raise("ValueError")

\* The parameters format_uk_date declares.
format_uk_date_parameters == {"date_to_format"}

\* A call format_uk_date(date, **kwargs): a keyword the function does not
\* declare raises TypeError before its body runs.
call_format_uk_date(date, kwargs) ==
    IF (DOMAIN kwargs) \subseteq format_uk_date_parameters
    THEN format_uk_date(date)
    ELSE Raise("TypeError")

\* --------------------------------------------------------------- pdf.py
format_currency_string(string_to_format, currency_symbol) ==
    Bind(Float(string_to_format), LAMBDA x : Ok(Cur(currency_symbol, Fmt2f(x))))

format_quantity_string(string_to_format) ==
    Bind(Float(string_to_format), LAMBDA x : Ok(Fmt2f(x)))

\* add_tax_and_balance with its two statements in the other order: the
\* balance is computed while the tax field still holds the rate.
add_tax_and_balance_balance_first(invoice_form) ==
    Bind(Get(invoice_form, "tax"), LAMBDA tax :
    Bind(Float(tax), LAMBDA t :
    Bind(Get(invoice_form, "subtotal"), LAMBDA subtotal :
    Bind(Float(subtotal), LAMBDA s :
        With(Put(invoice_form, "balance", Str(t + s)), LAMBDA form1 :
            Ok(Put(form1, "tax", Str((t * s) \div 1000))))))))

add_tax_and_balance(invoice_form) ==
    Bind(Get(invoice_form, "tax"), LAMBDA tax :
    Bind(Float(tax), LAMBDA t :
    Bind(Get(invoice_form, "subtotal"), LAMBDA subtotal :
    Bind(Float(subtotal), LAMBDA s :
        With(Put(invoice_form, "tax", Str((t * s) \div 1000)), LAMBDA form1 :
            Bind(Float(form1["tax"]), LAMBDA amount :
                Ok(Put(form1, "balance", Str(amount + s)))))))))

\* for x in xs: F(x), stopping at the first call that raises.
RECURSIVE ForEach(_, _, _)
ForEach(xs, F(_), done) ==
    IF xs = <<>> THEN Ok(done)
    ELSE Bind(F(Head(xs)), LAMBDA x : ForEach(Tail(xs), F, Append(done, x)))

line_item_amount(line_item) ==
    Bind(Get(line_item, "cost_per_item"), LAMBDA c :
    Bind(Float(c), LAMBDA cost_per_item :
    Bind(Get(line_item, "count"), LAMBDA n :
    Bind(Float(n), LAMBDA count :
        Ok(Put(line_item, "amount", Fmt2f((cost_per_item * count) \div 1000)))))))

add_line_items_amount(invoice_form) ==
    Bind(Get(invoice_form, "line_items"), LAMBDA items :
    Bind(ForEach(items, line_item_amount, <<>>), LAMBDA done :
        Ok(Put(invoice_form, "line_items", done))))

format_line_item(line_item) ==
    Bind(Get(line_item, "cost_per_item"), LAMBDA c :
    Bind(format_quantity_string(c), LAMBDA cost_per_item :
        Ok(Put(line_item, "cost_per_item", cost_per_item))))

format_line_items(invoice_form) ==
    Bind(Get(invoice_form, "line_items"), LAMBDA items :
    Bind(ForEach(items, format_line_item, <<>>), LAMBDA done :
        Ok(Put(invoice_form, "line_items", done))))

format_subtotal_tax_and_balance(invoice_form) ==
    Bind(Get(invoice_form, "subtotal"), LAMBDA s :
    Bind(format_quantity_string(s), LAMBDA subtotal :
    Bind(Get(invoice_form, "tax"), LAMBDA t :
    Bind(format_quantity_string(t), LAMBDA tax :
    Bind(Get(invoice_form, "balance"), LAMBDA b :
    Bind(format_currency_string(b, "??"), LAMBDA balance :
        Ok(Put(Put(Put(invoice_form, "subtotal", subtotal), "tax", tax),
               "balance", balance))))))))

format_invoice_form_dates(invoice_form) ==
    Bind(Get(invoice_form, "invoice_date"), LAMBDA i :
    Bind(format_uk_date(i), LAMBDA invoice_date :
    Bind(Get(invoice_form, "pay_date"), LAMBDA p :
    Bind(format_uk_date(p), LAMBDA pay_date :
        Ok(Put(Put(invoice_form, "invoice_date", invoice_date),
               "pay_date", pay_date))))))

\* format_address_line with address.insert(3, address_line_2).
format_address_line_insert_3(invoice_form) ==
    Bind(Get(invoice_form, "first_name"), LAMBDA first_name :
    Bind(Get(invoice_form, "last_name"), LAMBDA last_name :
    Bind(Get(invoice_form, "address_line_1"), LAMBDA address_line_1 :
    Bind(Get(invoice_form, "city"), LAMBDA city :
    Bind(Get(invoice_form, "post_code"), LAMBDA post_code :
        LET name == <<first_name, " ", last_name>>
            address_line_2 ==
                IF "address_line_2" \in DOMAIN invoice_form
                THEN invoice_form["address_line_2"] ELSE ""
            address ==
                IF address_line_2 \notin {None, ""}
                THEN <<name, address_line_1, city, address_line_2, post_code>>
                ELSE <<name, address_line_1, city, post_code>>
        IN  Ok(Put(invoice_form, "address", address)))))))

\* The address block, "\n".join(address), as the sequence of its lines.
format_address_line(invoice_form) ==
    Bind(Get(invoice_form, "first_name"), LAMBDA first_name :
    Bind(Get(invoice_form, "last_name"), LAMBDA last_name :
    Bind(Get(invoice_form, "address_line_1"), LAMBDA address_line_1 :
    Bind(Get(invoice_form, "city"), LAMBDA city :
    Bind(Get(invoice_form, "post_code"), LAMBDA post_code :
        LET name == <<first_name, " ", last_name>>
            address_line_2 ==
                IF "address_line_2" \in DOMAIN invoice_form
                THEN invoice_form["address_line_2"] ELSE ""
            address ==
                IF address_line_2 \notin {None, ""}
                THEN <<name, address_line_1, address_line_2, city, post_code>>
                ELSE <<name, address_line_1, city, post_code>>
        IN  Ok(Put(invoice_form, "address", address)))))))

format_terms_line(invoice_form) ==
    Bind(Get(invoice_form, "pay_date"), LAMBDA pay_date :
        Ok(Put(invoice_form, "terms", <<"Pay on or before ", pay_date, ".">>)))

unused_keys ==
    <<"first_name", "last_name", "address_line_1", "address_line_2", "city",
      "post_code", "pay_date">>

RECURSIVE DelAll(_, _)
DelAll(d, keys) ==
    IF keys = <<>> THEN Ok(d)
    ELSE IF Head(keys) \in DOMAIN d THEN DelAll(Del(d, Head(keys)), Tail(keys))
    ELSE Raise("KeyError")

delete_unused_keys(invoice_form) == DelAll(invoice_form, unused_keys)

format_invoice_form_input(invoice_form) ==
    Bind(add_tax_and_balance(invoice_form), LAMBDA f1 :
    Bind(add_line_items_amount(f1), LAMBDA f2 :
    Bind(format_line_items(f2), LAMBDA f3 :
    Bind(format_subtotal_tax_and_balance(f3), LAMBDA f4 :
    Bind(format_address_line(f4), LAMBDA f5 :
    Bind(format_invoice_form_dates(f5), LAMBDA f6 :
    Bind(format_terms_line(f6), LAMBDA f7 :
        delete_unused_keys(f7))))))))

\* The first four statements of format_invoice_form_input: the ones that
\* derive the tax, the balance and the amounts and format the numbers.
derive_fields(invoice_form) ==
    Bind(add_tax_and_balance(invoice_form), LAMBDA f1 :
    Bind(add_line_items_amount(f1), LAMBDA f2 :
    Bind(format_line_items(f2), LAMBDA f3 :
        format_subtotal_tax_and_balance(f3))))

\* One call of text.setFont, text.setTextOrigin and text.textLines: the line,
\* where it is put (mm) and in what font.
write_text_to_overlay(line, layout, x_offset, y_offset) ==
    [line |-> line,
     x |-> layout.x_origin + x_offset,
     y |-> layout.y_origin + y_offset,
     font |-> layout.font,
     size |-> layout.size]

\* The inner loop of write_line_items: every key of one line item.
write_line_item(line_item, layout, line_item_offset) ==
    IF (DOMAIN line_item) \subseteq (DOMAIN layout)
    THEN Ok([key \in DOMAIN line_item |->
                write_text_to_overlay(line_item[key], layout[key], 0, line_item_offset)])
    ELSE Raise("KeyError")

RECURSIVE write_line_items_from(_, _, _, _)
write_line_items_from(line_items, layout, line_item_offset, written) ==
    IF line_items = <<>> THEN Ok(written)
    ELSE Bind(write_line_item(Head(line_items), layout, line_item_offset), LAMBDA w :
            write_line_items_from(Tail(line_items), layout, line_item_offset - 5,
                                  Append(written, w)))

write_line_items(line_items, layout) ==
    write_line_items_from(line_items, layout, 0, <<>>)

\* write_page_number with the comparison off by one: page_number < total_pages.
write_page_number_off_by_one(page_number, total_pages, layout) ==
    Bind(Get(layout, "page_number_line"), LAMBDA page_slot :
        LET page_number_line ==
                write_text_to_overlay(<<"Page ", page_number + 1, " of ", total_pages>>,
                                      page_slot, 0, 0)
        IN  IF page_number < total_pages
            THEN Bind(Get(layout, "turn_over_line"), LAMBDA turn_slot :
                    Ok(<<page_number_line,
                         write_text_to_overlay("(Invoice continues overleaf)",
                                               turn_slot, 0, 0)>>))
            ELSE Ok(<<page_number_line>>))

write_page_number(page_number, total_pages, layout) ==
    Bind(Get(layout, "page_number_line"), LAMBDA page_slot :
        LET page_number_line ==
                write_text_to_overlay(<<"Page ", page_number + 1, " of ", total_pages>>,
                                      page_slot, 0, 0)
        IN  IF page_number + 1 < total_pages
            THEN Bind(Get(layout, "turn_over_line"), LAMBDA turn_slot :
                    Ok(<<page_number_line,
                         write_text_to_overlay("(Invoice continues overleaf)",
                                               turn_slot, 0, 0)>>))
            ELSE Ok(<<page_number_line>>))

\* The overlay page: what was written for the fields, for the line items and
\* by write_page_number.
generate_invoice_overlay(invoice_form, layout, page_number, total_pages) ==
    LET scalars == (DOMAIN invoice_form) \ {"line_items"}
        line_items ==
            IF "line_items" \in DOMAIN invoice_form
            THEN Bind(Get(layout, "line_items"), LAMBDA items_layout :
                    write_line_items(invoice_form["line_items"], items_layout))
            ELSE Ok(<<>>)
    IN  IF ~(scalars \subseteq DOMAIN layout) THEN Raise("KeyError")
        ELSE Bind(line_items, LAMBDA items :
             Bind(write_page_number(page_number, total_pages, layout), LAMBDA notes :
                Ok([fields |-> [field \in scalars |->
                                   write_text_to_overlay(invoice_form[field],
                                                         layout[field], 0, 0)],
                    line_items |-> items,
                    notes |-> notes])))

Min(a, b) == IF a < b THEN a ELSE b

\* [xs[j : j + size] for j in range(0, len(xs), step)]
Slices(xs, step, size) ==
    [k \in 1 .. ((Len(xs) + step - 1) \div step) |->
        SubSeq(xs, (k - 1) * step + 1, Min((k - 1) * step + size, Len(xs)))]

\* The slicing of an earlier revision: it advances by 9 and slices 10.
generate_line_item_lists_step9(line_items) == Slices(line_items, 9, 10)

generate_line_item_lists(line_items) == Slices(line_items, 10, 10)

\* The path with first name, last name and date joined by "_".
generate_output_path(invoice_form) ==
    Bind(Get(invoice_form, "first_name"), LAMBDA first_name :
    Bind(Get(invoice_form, "last_name"), LAMBDA last_name :
    Bind(Get(invoice_form, "invoice_date"), LAMBDA invoice_date :
    Bind(call_format_uk_date(invoice_date, [separator |-> "_"]), LAMBDA date :
        Ok(generate_absolute_path(
            <<"invoices/", "Invoice_for", "_", first_name, "_", last_name, "_",
              date, ".pdf">>))))))

\* The first page of resources/templates/invoice.pdf.
read_first_page == "invoice.pdf[0]"

\* The loop of generate_invoice_pages from page page_number on.
RECURSIVE invoice_pages_from(_, _, _, _, _)
invoice_pages_from(invoice_form, layout, line_item_lists, page_number, invoice_pages) ==
    IF page_number >= Len(line_item_lists) THEN Ok(invoice_pages)
    ELSE LET invoice_form_copy ==
                 Put(invoice_form, "line_items", line_item_lists[page_number + 1])
         IN  Bind(generate_invoice_overlay(invoice_form_copy, layout, page_number,
                                           Len(line_item_lists)), LAMBDA overlay :
                invoice_pages_from(invoice_form, layout, line_item_lists, page_number + 1,
                    Append(invoice_pages,
                           [page |-> read_first_page, merged |-> overlay])))

generate_invoice_pages(invoice_form, layout) ==
    Bind(Get(invoice_form, "line_items"), LAMBDA line_items :
        invoice_pages_from(invoice_form, layout, generate_line_item_lists(line_items),
                           0, <<>>))

\* invoice.insertPage(invoice_page, i)
insertPage(pages, page, i) ==
    SubSeq(pages, 1, i) \o <<page>> \o SubSeq(pages, i + 1, Len(pages))

RECURSIVE insert_pages(_, _, _)
insert_pages(invoice, invoice_pages, i) ==
    IF i >= Len(invoice_pages) THEN invoice
    ELSE insert_pages(insertPage(invoice, invoice_pages[i + 1], i), invoice_pages, i + 1)

\* generate_invoice: what it returns or raises, and the files it leaves.
generate_invoice(invoice_form, layout, fs) ==
    With(Bind(generate_output_path(invoice_form), LAMBDA output_path :
         Bind(format_invoice_form_input(invoice_form), LAMBDA form :
         Bind(generate_invoice_pages(form, layout), LAMBDA invoice_pages :
            Ok([path |-> output_path,
                invoice |-> insert_pages(<<>>, invoice_pages, 0)])))),
         LAMBDA ret :
            IF ret.ok
            THEN [ret |-> Ok(ret.val.path),
                  files |-> Put(fs, ret.val.path, ret.val.invoice)]
            ELSE [ret |-> ret, files |-> fs])

\* register_fonts(fonts): one more call of it.
register_fonts(registrations) == registrations + 1

\* The module body of pdf.py, run when the module is loaded: its last
\* statement calls register_fonts.
pdf_module_body(registrations) == register_fonts(registrations)

\* An import that runs the module body every time it is executed.
import_pdf_always_runs_body(modules, registrations) ==
    [modules |-> modules \cup {"pdf"},
     registrations |-> pdf_module_body(registrations)]

\* from pdf import generate_invoice: the module body runs when the module is
\* not among the loaded ones; a loaded module is taken from sys.modules.
import_pdf(modules, registrations) ==
    IF "pdf" \in modules
    THEN [modules |-> modules, registrations |-> registrations]
    ELSE [modules |-> modules \cup {"pdf"},
          registrations |-> pdf_module_body(registrations)]

\* ---------------------------------------------------------------- db.py
\* A row of table address: the six columns in the order of the table.
\* clients_db maps every row the table holds to the number of its copies.

\* SQL's a = b: it is not true when either side is NULL.
SqlEquals(a, b) == a # None /\ b # None /\ a = b

\* The where clause of the delete of remove_address, its parameters bound to
\* the columns of row.
DeleteMatches(r, row) == \A i \in 1 .. 6 : SqlEquals(r[i], row[i])

\* The uniqueness of a full row that the store enforces: the insert of row
\* conflicts with a row r that equals it in every column, as the unique
\* index of SQLite compares them (a NULL is distinct from every value).
UniqueConflict(r, row) == \A i \in 1 .. 6 : SqlEquals(r[i], row[i])

\* SqliteConnector.__init__: self.con = self.open_db(), one more connection.
open_db(open_connections) == open_connections + 1

\* SqliteConnector.close_db: self.con.close(), one connection fewer.
close_db(open_connections) == open_connections - 1

RECURSIVE Total(_)
Total(table) ==
    IF DOMAIN table = {} THEN 0
    ELSE LET r == CHOOSE x \in DOMAIN table : TRUE
         IN  table[r] + Total(Del(table, r))

\* select count(*) from address
row_count(table) == Total(table)

\* insert or ignore into address values (?,?,?,?,?,?)
enter_address(table, row) ==
    IF \E r \in DOMAIN table : UniqueConflict(r, row)
    THEN table
    ELSE Put(table, row, IF row \in DOMAIN table THEN table[row] + 1 ELSE 1)

\* remove_address: the table it leaves and the value it returns.
remove_address(table, row) ==
    With(row_count(table), LAMBDA row_count_pre :
    With([r \in {x \in DOMAIN table : ~DeleteMatches(x, row)} |-> table[r]], LAMBDA left :
    With(row_count(left), LAMBDA row_count_post :
        [table |-> left, ret |-> ~(row_count_pre = row_count_post)])))

\* select * from address where first_name=? and last_name=?
search_address(table, first_name, last_name) ==
    [r \in {x \in DOMAIN table :
                SqlEquals(x[1], first_name) /\ SqlEquals(x[2], last_name)} |-> table[r]]

\* ------------------------------------------------------------ mailer.py
PyBool(b) == [type |-> "bool", value |-> b]
PyNone == [type |-> "NoneType"]

\* What ses_client.send_raw_email may do: return a response with a
\* MessageId, return one without, or raise ClientError.
SesOutcomes ==
    {Ok([MessageId |-> "0001", ResponseMetadata |-> "200"]),
     Ok([ResponseMetadata |-> "200"]),
     Raise("ClientError")}

\* EmailManager.__init__ as far as the request decides it: format_body
\* formats the invoice date.
EmailManager(invoice_meta) ==
    Bind(format_uk_date(invoice_meta["invoice_date"]), LAMBDA invoice_date :
        Ok([sender |-> [company_name |-> "Company", email |-> "office@company.example"],
            invoice_meta |-> invoice_meta,
            fields |-> [invoice_date |-> invoice_date,
                        first_name |-> invoice_meta["first_name"]]]))

construct_email(self, invoice_file_path) ==
    [Subject |-> "subject",
     From |-> self.sender.email,
     To |-> self.invoice_meta["email_address"],
     attachment |-> invoice_file_path]

\* The call of send_raw_email that send_email makes.
send_raw_email_call(self, message) ==
    [Source |-> self.sender.email,
     Destinations |-> <<self.invoice_meta["email_address"]>>,
     RawMessage |-> message]

\* send_email: what it returns when send_raw_email ends as ses_outcome.
send_email(self, message, ses_outcome) ==
    IF ses_outcome.ok
    THEN IF "MessageId" \in DOMAIN ses_outcome.val
         THEN Ok(PyBool(TRUE))
         ELSE Ok(PyNone)
    ELSE IF ses_outcome.err = "ClientError"
         THEN Ok(PyBool(FALSE))
         ELSE ses_outcome

\* --------------------------------------------------------------- api.py
client_db_row_schema ==
    <<"first_name", "last_name", "address_line_1", "address_line_2", "city",
      "post_code">>

strip_emails_from_request(request_body) ==
    DelAll(request_body, <<"email_address", "cc_email_address">>)

\* add_client: the table it leaves.
add_client(table, request_body) ==
    enter_address(table, [i \in 1 .. 6 |-> request_body[client_db_row_schema[i]]])

\* remove_client: the table it leaves and the body it returns.
remove_client(table, request_body) ==
    With(remove_address(table,
             [i \in 1 .. 6 |-> request_body[client_db_row_schema[i]]]), LAMBDA out :
        [table |-> out.table,
         ret |-> IF out.ret THEN [success |-> TRUE] ELSE [success |-> FALSE]])

\* search_client: the rows it returns.
search_client(table, request_body) ==
    search_address(table, request_body["first_name"], request_body["last_name"])

add_client_using_invoice(table, request_body) ==
    With(Put(Del(request_body, "invoice_number"), "method", "add"),
         LAMBDA request_body_copy : add_client(table, request_body_copy))

\* download_invoice: what it returns or raises, and the files it leaves.
download_invoice(request_body, layout, fs) ==
    With(strip_emails_from_request(request_body), LAMBDA stripped :
        IF ~stripped.ok THEN [ret |-> stripped, files |-> fs, ses |-> <<>>]
        ELSE With(generate_invoice(stripped.val, layout, fs), LAMBDA out :
            IF ~out.ret.ok THEN [ret |-> out.ret, files |-> out.files, ses |-> <<>>]
            ELSE [ret |-> Ok([FileResponse |-> out.ret.val,
                              media_type |-> "application/pdf"]),
                  files |-> out.files, ses |-> <<>>]))

\* email_invoice: what it returns or raises, the files it leaves and the
\* calls of send_raw_email it makes, when send_raw_email ends as ses_outcome.
email_invoice(request_body, layout, fs, ses_outcome) ==
    With([first_name |-> request_body["first_name"],
          email_address |-> request_body["email_address"],
          invoice_date |-> request_body["invoice_date"]], LAMBDA invoice_meta :
    With(EmailManager(invoice_meta), LAMBDA email_manager :
        IF ~email_manager.ok THEN [ret |-> email_manager, files |-> fs, ses |-> <<>>]
        ELSE
    With(strip_emails_from_request(request_body), LAMBDA stripped :
        IF ~stripped.ok THEN [ret |-> stripped, files |-> fs, ses |-> <<>>]
        ELSE
    With(generate_invoice(stripped.val, layout, fs), LAMBDA out :
        IF ~out.ret.ok THEN [ret |-> out.ret, files |-> out.files, ses |-> <<>>]
        ELSE
    With(construct_email(email_manager.val, out.ret.val), LAMBDA message :
    With(send_email(email_manager.val, message, ses_outcome), LAMBDA success :
        [ret |-> Bind(success, LAMBDA v : Ok([success |-> v])),
         files |-> out.files,
         ses |-> <<send_raw_email_call(email_manager.val, message)>>]))))))

\* The connections that are open when add_client, remove_client and
\* search_client return: each constructs a SqliteConnector and none calls
\* its close_db.
add_client_connections(open_connections) == open_db(open_connections)
remove_client_connections(open_connections) == open_db(open_connections)
search_client_connections(open_connections) == open_db(open_connections)

\* The methods the /invoice endpoint routes, and those of /client.
invoice_method_routes == {"download", "email"}
client_method_routes == {"add", "remove", "search"}

\* root_invoice with the method looked up before the client is added.
root_invoice_lookup_first(table, request_body, layout, fs, ses_outcome) ==
    With(request_body["method"], LAMBDA method :
    With(Del(request_body, "method"), LAMBDA body :
        IF method \notin invoice_method_routes
        THEN [table |-> table, ret |-> Raise("KeyError"), files |-> fs, ses |-> <<>>]
        ELSE With(add_client_using_invoice(table, request_body), LAMBDA added :
             With(IF method = "download"
                  THEN download_invoice(body, layout, fs)
                  ELSE email_invoice(body, layout, fs, ses_outcome), LAMBDA out :
            [table |-> added, ret |-> out.ret, files |-> out.files, ses |-> out.ses]))))

\* The handler of POST /invoice: the table and the files it leaves, what it
\* returns or raises and the calls of send_raw_email it makes.
root_invoice(table, request_body, layout, fs, ses_outcome) ==
    With(add_client_using_invoice(table, request_body), LAMBDA added :
    With(request_body["method"], LAMBDA method :
    With(Del(request_body, "method"), LAMBDA body :
        IF method \notin invoice_method_routes
        THEN [table |-> added, ret |-> Raise("KeyError"), files |-> fs, ses |-> <<>>]
        ELSE With(IF method = "download"
                  THEN download_invoice(body, layout, fs)
                  ELSE email_invoice(body, layout, fs, ses_outcome), LAMBDA out :
            [table |-> added, ret |-> out.ret, files |-> out.files, ses |-> out.ses]))))

\* The connections that are open when the handler of POST /invoice is left:
\* add_client_using_invoice calls add_client before anything can raise.
root_invoice_connections(open_connections, request_body) ==
    add_client_connections(open_connections)

\* The connections that are open when the handler of POST /client is left.
root_client_connections(open_connections, request_body) ==
    With(request_body["method"], LAMBDA method :
        IF method \notin client_method_routes THEN open_connections
        ELSE IF method = "add" THEN add_client_connections(open_connections)
        ELSE IF method = "remove" THEN remove_client_connections(open_connections)
        ELSE search_client_connections(open_connections))

\* The handler of POST /client: the table it leaves and what it returns or
\* raises.
root_client(table, request_body) ==
    With(request_body["method"], LAMBDA method :
    With(Del(request_body, "method"), LAMBDA body :
        IF method \notin client_method_routes
        THEN [table |-> table, ret |-> Raise("KeyError")]
        ELSE IF method = "add"
        THEN [table |-> add_client(table, body), ret |-> Ok(None)]
        ELSE IF method = "remove"
        THEN With(remove_client(table, body), LAMBDA out :
                [table |-> out.table, ret |-> Ok(out.ret)])
        ELSE [table |-> table, ret |-> Ok(search_client(table, body))]))

\* ------------------------------------------------------------ the inputs
FirstNames == {"Ann", "Bob"}
AddressLine2s == {None, "", "Flat 2"}
InvoiceNumbers == {"INV-1", "INV-2"}

IsoDate(y, m, d) == [fmt |-> "%Y-%m-%d", y |-> y, m |-> m, d |-> d]
ValidDates == {IsoDate(2023, 1, 5), IsoDate(2023, 12, 31)}
\* 05.01.2023: a date that is not written Y-m-d
BadDate == [fmt |-> "%d.%m.%Y", y |-> 2023, m |-> 1, d |-> 5]

\* The i-th line item of a request: i of them, 2.5 each.
LineItem(i) ==
    [description |-> <<"Item ", i>>,
     cost_per_item |-> Dec(2500, 1),
     count |-> Dec(i * 1000, 0)]

LineItems(n) == [i \in 1 .. n |-> LineItem(i)]

\* The dict generate_invoice is called with: the fields of InvoiceForm less
\* email_address, cc_email_address and method.
InvoiceDict(first_name, address_line_2, invoice_number, invoice_date, n) ==
    [first_name |-> first_name,
     last_name |-> "Lee",
     address_line_1 |-> "1 High St",
     address_line_2 |-> address_line_2,
     city |-> "York",
     post_code |-> "YO1 7HH",
     invoice_number |-> invoice_number,
     invoice_date |-> invoice_date,
     pay_date |-> IsoDate(2024, 1, 31),
     line_items |-> LineItems(n),
     tax |-> Dec(200, 1),
     subtotal |-> Str(1250 * n * (n + 1))]

InvoiceDicts(dates) ==
    {InvoiceDict(f, a, i, d, n) :
        f \in FirstNames, a \in AddressLine2s, i \in InvoiceNumbers, d \in dates,
        n \in 0 .. MaxItems}

\* The tax rates and subtotals of the dicts format_invoice_form_input is
\* called with: "0", "0.2", "0.125" and "0.0", "10.0", "10.03", "99.99".
TaxRates == {Dec(0, 0), Dec(200, 1), Dec(125, 3)}
Subtotals == {Dec(0, 1), Dec(10000, 1), Dec(10030, 2), Dec(99990, 2)}

\* The dicts format_invoice_form_input is called with: with every
\* address_line_2, and without the key.
NormalizeInputs ==
    LET WithLine2 ==
            {Put(Put(InvoiceDict("Ann", a, "INV-1", IsoDate(2023, 1, 5), n),
                     "tax", t), "subtotal", s) :
                a \in AddressLine2s, t \in TaxRates, s \in Subtotals, n \in {0, 2}}
    IN  WithLine2 \cup {Del(form, "address_line_2") : form \in WithLine2}

\* The body of a POST /invoice: the fields of InvoiceForm.
InvoiceRequest(first_name, address_line_2, invoice_date, n, method) ==
    InvoiceDict(first_name, address_line_2, "INV-1", invoice_date, n)
    @@ [email_address |-> "ann@client.example",
        cc_email_address |-> "books@client.example",
        method |-> method]

InvoiceMethods == {"download", "print", "email", "fax"}
ClientAddressLine2s == {None, "Flat 2"}

InvoiceRequests ==
    {InvoiceRequest(f, a, d, n, m) :
        f \in FirstNames, a \in ClientAddressLine2s,
        d \in {IsoDate(2023, 1, 5), BadDate}, n \in {0, 1, MaxItems},
        m \in InvoiceMethods}

\* The body of a POST /client: the fields of ClientForm.
ClientRequest(first_name, address_line_2, method) ==
    [first_name |-> first_name,
     last_name |-> "Lee",
     address_line_1 |-> "1 High St",
     address_line_2 |-> address_line_2,
     city |-> "York",
     post_code |-> "YO1 7HH",
     method |-> method]

ClientMethods == {"add", "remove", "search", "update"}

ClientRequests ==
    {ClientRequest(f, a, m) :
        f \in FirstNames, a \in ClientAddressLine2s, m \in ClientMethods}

\* The row of the address book a request names.
RowOf(request_body) == [i \in 1 .. 6 |-> request_body[client_db_row_schema[i]]]

\* The copies of row in the table.
Copies(table, row) == IF row \in DOMAIN table THEN table[row] ELSE 0

\* The layout resource: a position and a font for every field drawn.
Slot(x, y) == [x_origin |-> x, y_origin |-> y, font |-> "Helvetica", size |-> 10]

FullLayout ==
    [invoice_number |-> Slot(150, 250),
     invoice_date |-> Slot(150, 245),
     address |-> Slot(20, 250),
     terms |-> Slot(20, 40),
     subtotal |-> Slot(170, 60),
     tax |-> Slot(170, 55),
     balance |-> Slot(170, 50),
     line_items |-> [description |-> Slot(20, 200),
                     cost_per_item |-> Slot(120, 200),
                     count |-> Slot(145, 200),
                     amount |-> Slot(170, 200)],
     page_number_line |-> Slot(95, 15),
     turn_over_line |-> Slot(85, 20)]

\* The layouts a deployment may hold: the full one, and ones that miss the
\* entry of a scalar field, of a sub-field of the line items, or of the notice.
Layouts ==
    {FullLayout,
     Del(FullLayout, "terms"),
     Put(FullLayout, "line_items", Del(FullLayout["line_items"], "amount")),
     Del(FullLayout, "turn_over_line")}

\* ------------------------------------------------------------ the state
NoCall == [op |-> "none"]

Init ==
    /\ clients_db = << >>
    /\ files = << >>
    /\ last = NoCall
    /\ connections = 0
    /\ sys_modules = {}
    /\ font_registrations = 0

\* The three variables of the process that a call of a function leaves alone.
process == <<connections, sys_modules, font_registrations>>

\* An import of pdf is executed: api.py does it when it is loaded.
Import_pdf ==
    /\ last = NoCall
    /\ With(import_pdf(sys_modules, font_registrations), LAMBDA out :
            /\ sys_modules' = out.modules
            /\ font_registrations' = out.registrations)
    /\ UNCHANGED <<clients_db, files, last, connections>>

\* ----------------------------------------------- the functions of pdf.py
Run_generate_line_item_lists ==
    \E n \in 0 .. MaxItems :
        /\ last = NoCall
        /\ "pdf" \in sys_modules
        /\ last' = [op |-> "generate_line_item_lists",
                    args |-> LineItems(n),
                    ret |-> generate_line_item_lists(LineItems(n))]
        /\ UNCHANGED <<clients_db, files, process>>

Run_generate_invoice_pages ==
    \E form \in InvoiceDicts(ValidDates), layout \in Layouts :
        /\ last = NoCall
        /\ "pdf" \in sys_modules
        /\ With(format_invoice_form_input(form).val, LAMBDA invoice_form :
                last' = [op |-> "generate_invoice_pages",
                         args |-> [invoice_form |-> invoice_form, layout |-> layout],
                         ret |-> generate_invoice_pages(invoice_form, layout)])
        /\ UNCHANGED <<clients_db, files, process>>

Run_generate_output_path ==
    \E form \in InvoiceDicts(ValidDates \cup {BadDate}) :
        /\ last = NoCall
        /\ "pdf" \in sys_modules
        /\ last' = [op |-> "generate_output_path",
                    args |-> form,
                    ret |-> generate_output_path(form)]
        /\ UNCHANGED <<clients_db, files, process>>

Run_generate_invoice ==
    \E form \in InvoiceDicts(ValidDates \cup {BadDate}), layout \in Layouts :
        /\ last = NoCall
        /\ "pdf" \in sys_modules
        /\ With(generate_invoice(form, layout, files), LAMBDA out :
                /\ last' = [op |-> "generate_invoice",
                            args |-> [invoice_form |-> form, layout |-> layout],
                            before |-> files,
                            ret |-> out.ret]
                /\ files' = out.files)
        /\ UNCHANGED <<clients_db, process>>

\* format_invoice_form_input on its own, and what its first four statements
\* and the whole of it do to the dict it leaves.
Run_format_invoice_form_input ==
    \E form \in NormalizeInputs :
        /\ last = NoCall
        /\ "pdf" \in sys_modules
        /\ With(format_invoice_form_input(form), LAMBDA ret :
                last' = [op |-> "format_invoice_form_input",
                         args |-> form,
                         ret |-> ret,
                         again |-> Bind(ret, derive_fields),
                         second |-> Bind(ret, format_invoice_form_input)])
        /\ UNCHANGED <<clients_db, files, process>>

Run_format_address_line ==
    \E form \in NormalizeInputs :
        /\ last = NoCall
        /\ "pdf" \in sys_modules
        /\ last' = [op |-> "format_address_line",
                    args |-> form,
                    ret |-> format_address_line(form)]
        /\ UNCHANGED <<clients_db, files, process>>

\* EmailManager.send_email on its own.
Run_send_email ==
    \E f \in FirstNames, d \in ValidDates,
       ses_outcome \in SesOutcomes \cup {Raise("EndpointConnectionError")} :
        LET self == EmailManager([first_name |-> f,
                                  email_address |-> "ann@client.example",
                                  invoice_date |-> d]).val
            message == construct_email(self, generate_absolute_path("invoices/x.pdf"))
        IN  /\ last = NoCall
            /\ last' = [op |-> "send_email",
                        args |-> [self |-> self, message |-> message],
                        ses_outcome |-> ses_outcome,
                        ses |-> <<send_raw_email_call(self, message)>>,
                        ret |-> send_email(self, message, ses_outcome)]
            /\ UNCHANGED <<clients_db, files, process>>

\* The caller has taken the outcome of the call: the next call may start.
Return ==
    /\ last # NoCall
    /\ last' = NoCall
    /\ UNCHANGED <<clients_db, files, process>>

NextCalls ==
    \/ Import_pdf
    \/ Run_generate_line_item_lists
    \/ Run_generate_invoice_pages
    \/ Run_generate_output_path
    \/ Run_generate_invoice
    \/ Run_send_email
    \/ Run_format_invoice_form_input
    \/ Run_format_address_line
    \/ Return

SpecCalls == Init /\ [][NextCalls]_vars

\* ------------------------------------------------------- the endpoints
Post_invoice ==
    \E request_body \in InvoiceRequests, layout \in Layouts, ses_outcome \in SesOutcomes :
        /\ last = NoCall
        /\ "pdf" \in sys_modules
        /\ connections' = root_invoice_connections(connections, request_body)
        /\ connections' <= MaxOpen
        /\ UNCHANGED <<sys_modules, font_registrations>>
        /\ With(root_invoice(clients_db, request_body, layout, files, ses_outcome),
                LAMBDA out :
                /\ \A r \in DOMAIN out.table : out.table[r] <= MaxCopies
                /\ clients_db' = out.table
                /\ files' = out.files
                /\ last' = [op |-> "POST /invoice",
                            args |-> request_body,
                            layout |-> layout,
                            before |-> clients_db,
                            ses |-> out.ses,
                            ret |-> out.ret])

Post_client ==
    \E request_body \in ClientRequests :
        /\ last = NoCall
        /\ "pdf" \in sys_modules
        /\ connections' = root_client_connections(connections, request_body)
        /\ connections' <= MaxOpen
        /\ UNCHANGED <<sys_modules, font_registrations>>
        /\ With(root_client(clients_db, request_body), LAMBDA out :
                /\ \A r \in DOMAIN out.table : out.table[r] <= MaxCopies
                /\ clients_db' = out.table
                /\ last' = [op |-> "POST /client",
                            args |-> request_body,
                            before |-> clients_db,
                            ret |-> out.ret])
        /\ UNCHANGED files

\* The collector finalises a SqliteConnector no request refers to any more:
\* its connection is closed then, at a time the program does not decide.
Collect ==
    /\ connections > 0
    /\ connections' = close_db(connections)
    /\ UNCHANGED <<clients_db, files, last, sys_modules, font_registrations>>

Next ==
    \/ Import_pdf
    \/ Collect
    \/ Post_invoice
    \/ Post_client
    \/ Return

Spec == Init /\ [][Next]_vars

\* ------------------------------------------------------------ the claims
\* A call of generate_invoice on a valid request with every resource there.
ValidInvoiceCall ==
    /\ last.op = "generate_invoice"
    /\ last.args.invoice_form["invoice_date"] \in ValidDates
    /\ last.args.layout = FullLayout

\* C1: generate_invoice on a valid invoice request, with the template, the
\* layout and the output directory there, raises nothing: it returns the
\* path of the one file it has written.
C1_ValidInvoiceIsWritten ==
    ValidInvoiceCall =>
        /\ last.ret.ok
        /\ last.ret.val \in DOMAIN files
        /\ DOMAIN files = (DOMAIN last.before) \cup {last.ret.val}

RECURSIVE Concat(_)
Concat(xss) == IF xss = <<>> THEN <<>> ELSE Head(xss) \o Concat(Tail(xss))

C3_PagesFollowChunks ==
    ValidInvoiceCall =>
        /\ last.ret.ok
        /\ LET items == last.args.invoice_form["line_items"]
               doc == files[last.ret.val]
           IN  /\ Len(doc) = (Len(items) + 9) \div 10
               /\ \A k \in 1 .. Len(doc) :
                     /\ doc[k].page = read_first_page
                     /\ Len(doc[k].merged.line_items)
                            = Min(10, Len(items) - 10 * (k - 1))
                     /\ \A j \in 1 .. Len(doc[k].merged.line_items) :
                           doc[k].merged.line_items[j]["description"].line
                               = items[10 * (k - 1) + j]["description"]

\* The notes write_page_number left on a page: the footer, and the notice.
Footer(page) == page.merged.notes[1].line
HasTurnOver(page) ==
    /\ Len(page.merged.notes) > 1
    /\ page.merged.notes[2].line = "(Invoice continues overleaf)"

\* C4: every page generate_invoice_pages renders carries the footer
\* "Page X of Y", X its 1-based position and Y the number of pages, and it
\* carries the notice "(Invoice continues overleaf)" exactly when it is not
\* the last page.
C4_FooterAndNotice ==
    (last.op = "generate_invoice_pages" /\ last.ret.ok) =>
        \A k \in 1 .. Len(last.ret.val) :
            /\ Footer(last.ret.val[k]) = <<"Page ", k, " of ", Len(last.ret.val)>>
            /\ HasTurnOver(last.ret.val[k]) <=> k < Len(last.ret.val)

\* An invoice of three pages was rendered.
C4_Witness ==
    /\ last.op = "generate_invoice_pages"
    /\ last.ret.ok
    /\ Len(last.ret.val) = 3

\* Two requests name the same client and the same invoice date.
SameClientAndDate(f, g) ==
    /\ f["first_name"] = g["first_name"]
    /\ f["last_name"] = g["last_name"]
    /\ f["invoice_date"] = g["invoice_date"]

\* C5: generate_output_path gives a request a path that its client name,
\* invoice date and invoice number decide: a request with the same three
\* gets the same path, and one of the same client and date with another
\* invoice number gets another path.
C5_PathByNameDateAndNumber ==
    (last.op = "generate_output_path" /\ last.args["invoice_date"] \in ValidDates) =>
        /\ last.ret.ok
        /\ \A other \in InvoiceDicts(ValidDates) :
              SameClientAndDate(other, last.args) =>
                  /\ generate_output_path(other).ok
                  /\ other["invoice_number"] = last.args["invoice_number"]
                        => generate_output_path(other).val = last.ret.val
                  /\ other["invoice_number"] # last.args["invoice_number"]
                        => generate_output_path(other).val # last.ret.val

\* The layout has no entry for a field of the normalized invoice, or for a
\* sub-field of one of its line items.
LacksLayoutEntry(invoice_form, layout) ==
    With(format_invoice_form_input(invoice_form), LAMBDA form :
        /\ form.ok
        /\ \/ ~((DOMAIN form.val) \subseteq (DOMAIN layout))
           \/ /\ "line_items" \in DOMAIN layout
              /\ \E i \in 1 .. Len(form.val["line_items"]) :
                    ~((DOMAIN form.val["line_items"][i])
                        \subseteq (DOMAIN layout["line_items"])))

\* C6: when the layout has no entry for a field of the normalized invoice,
\* generate_invoice raises the error of the missing key and leaves the files
\* as they were.
C6_MissingLayoutKey ==
    (last.op = "generate_invoice"
        /\ LacksLayoutEntry(last.args.invoice_form, last.args.layout)) =>
        /\ ~last.ret.ok
        /\ last.ret.err = "KeyError"
        /\ files = last.before

\* C7: a POST /invoice whose method is download, print or email is handled:
\* the invoice is generated and delivered by that method.
C7_ThreeMethodsDeliver ==
    (/\ last.op = "POST /invoice"
     /\ last.args["method"] \in {"download", "print", "email"}
     /\ last.args["invoice_date"] \in ValidDates
     /\ last.layout = FullLayout) =>
        /\ last.ret.ok
        /\ DOMAIN files # {}
        /\ last.args["method"] = "email" => Len(last.ses) = 1

\* C8: send_email returns a boolean whatever send_raw_email does: True
\* exactly when the response holds a MessageId, False when ClientError is
\* raised and when the response holds none.
C8_SendEmailReturnsBoolean ==
    (last.op = "send_email"
        /\ (last.ses_outcome.ok \/ last.ses_outcome.err = "ClientError")) =>
        /\ last.ret.ok
        /\ last.ret.val.type = "bool"
        /\ last.ret.val.value
              <=> (last.ses_outcome.ok /\ "MessageId" \in DOMAIN last.ses_outcome.val)

\* C9: the remove of a record the API accepts answers success exactly when
\* the record was in the address book, and then the record is gone; when it
\* was not there the address book is as it was.
C9_RemoveAnswersPresence ==
    (last.op = "POST /client" /\ last.args["method"] = "remove") =>
        /\ last.ret.ok
        /\ last.ret.val.success <=> Copies(last.before, RowOf(last.args)) > 0
        /\ Copies(last.before, RowOf(last.args)) > 0
              => Copies(clients_db, RowOf(last.args)) = 0
        /\ Copies(last.before, RowOf(last.args)) = 0 => clients_db = last.before

PagesOfChunks ==
    (last.op = "generate_invoice_pages" /\ last.ret.ok) =>
        LET items == last.args.invoice_form["line_items"]
            pages == last.ret.val
        IN  /\ Len(pages) = (Len(items) + 9) \div 10
            /\ \A k \in 1 .. Len(pages) :
                  /\ pages[k].page = read_first_page
                  /\ Len(pages[k].merged.line_items)
                         = Min(10, Len(items) - 10 * (k - 1))
                  /\ \A j \in 1 .. Len(pages[k].merged.line_items) :
                        pages[k].merged.line_items[j]["description"].line
                            = items[10 * (k - 1) + j]["description"]

\* The numbers format_invoice_form_input derives: of every line item the
\* amount and the cost per item, and the subtotal, the tax and the balance.
DerivedFields(form) ==
    [line_items |-> [i \in 1 .. Len(form["line_items"]) |->
                        <<form["line_items"][i]["amount"],
                          form["line_items"][i]["cost_per_item"]>>],
     subtotal |-> form["subtotal"],
     tax |-> form["tax"],
     balance |-> form["balance"]]

\* C11: the derivation of format_invoice_form_input, applied to the record
\* a normalization has left, runs and leaves the amount and the cost per item
\* of every line item and the subtotal, the tax and the balance as they were.
C11_DerivationIdempotent ==
    (last.op = "format_invoice_form_input" /\ last.ret.ok) =>
        /\ last.again.ok
        /\ DerivedFields(last.again.val) = DerivedFields(last.ret.val)

\* The tax rate and the subtotal of a request, in units of 1/1000.
RateOf(form) == form["tax"].v
SubtotalOf(form) == form["subtotal"].v

\* C12: after normalization the tax field holds the tax rate times the
\* subtotal and the balance holds that amount plus the subtotal, each
\* written with two decimals (within half a hundredth of the exact value);
\* the balance is the currency string of subtotal * (1 + rate).
C12_TaxAndBalance ==
    (last.op = "format_invoice_form_input" /\ last.ret.ok) =>
        LET t == RateOf(last.args)
            s == SubtotalOf(last.args)
            tax == last.ret.val["tax"]
            balance == last.ret.val["balance"]
        IN  /\ DOMAIN tax = {"v", "dp"}
            /\ tax.dp = 2
            /\ tax.v * 1000 - t * s \in -5000 .. 5000
            /\ DOMAIN balance = {"symbol", "v", "dp"}
            /\ balance.dp = 2
            /\ balance.v * 1000 - (t * s + s * 1000) \in -5000 .. 5000
            /\ balance.v = tax.v + s

\* A record was normalized whose tax amount differs from its tax rate and
\* from its subtotal: rate 0.2 of 10.03 is 2.01, the balance 12.04.
C12_Witness ==
    /\ last.op = "format_invoice_form_input"
    /\ last.ret.ok
    /\ RateOf(last.args) = 200
    /\ SubtotalOf(last.args) = 10030
    /\ last.ret.val["tax"] = Dec(2010, 2)
    /\ last.ret.val["balance"] = Cur("??", Dec(12040, 2))

\* The address_line_2 format_address_line sees: "" when the key is absent.
Line2Of(form) ==
    IF "address_line_2" \in DOMAIN form THEN form["address_line_2"] ELSE ""

\* C13: the address block format_address_line composes has four lines, the
\* name, address line 1, the city and the post code, when address_line_2 is
\* empty, and five lines, address line 2 the third, when it is not.
C13_AddressBlockLines ==
    (last.op = "format_address_line") =>
        /\ last.ret.ok
        /\ LET form == last.args
               address == last.ret.val["address"]
               name == <<form["first_name"], " ", form["last_name"]>>
           IN  IF Line2Of(form) \in {None, ""}
               THEN address = <<name, form["address_line_1"], form["city"],
                                form["post_code"]>>
               ELSE address = <<name, form["address_line_1"], Line2Of(form),
                                form["city"], form["post_code"]>>

\* An address block of five lines was composed.
C13_Witness ==
    /\ last.op = "format_address_line"
    /\ Line2Of(last.args) = "Flat 2"
    /\ last.ret.ok
    /\ Len(last.ret.val["address"]) = 5

\* C14: the normalization of a request completes, with or without the key
\* address_line_2, and the record it leaves holds none of the raw fields.
C14_RawFieldsDeleted ==
    (last.op = "format_invoice_form_input") =>
        /\ last.ret.ok
        /\ \A i \in 1 .. Len(unused_keys) : unused_keys[i] \notin DOMAIN last.ret.val

\* C15: every operation on the address book has closed the connection it
\* opened when it returns: after any requests no connection is open.
C15_ConnectionsClosed ==
    connections = 0

C17_ClientAddedWhateverFollows ==
    (last.op = "POST /invoice") =>
        /\ Copies(clients_db, RowOf(last.args)) >= 1
        /\ \A r \in DOMAIN last.before : Copies(clients_db, r) >= last.before[r]

\* A request with a method that is not routed raised KeyError and left its
\* client, who was not there before, in the address book.
C17_Witness ==
    /\ last.op = "POST /invoice"
    /\ last.args["method"] = "fax"
    /\ ~last.ret.ok
    /\ Copies(last.before, RowOf(last.args)) = 0
    /\ Copies(clients_db, RowOf(last.args)) = 1

\* C18: generate_invoice on a valid request with no line item returns the
\* path of the file it has written, a document of no page.
C18_ZeroItemsEmptyDocument ==
    (ValidInvoiceCall /\ Len(last.args.invoice_form["line_items"]) = 0) =>
        /\ last.ret.ok
        /\ last.ret.val \in DOMAIN files
        /\ files[last.ret.val] = <<>>

\* C19: a POST /invoice with method email hands the mail transport one
\* message, whose destinations are the email_address of the request and
\* nothing else; the cc_email_address is not among them.
C19_DestinationsAreEmailAddress ==
    (/\ last.op = "POST /invoice"
     /\ last.args["method"] = "email"
     /\ last.args["invoice_date"] \in ValidDates
     /\ last.layout = FullLayout) =>
        /\ Len(last.ses) = 1
        /\ last.ses[1].Destinations = <<last.args["email_address"]>>
        /\ \A i \in 1 .. Len(last.ses[1].Destinations) :
              last.ses[1].Destinations[i] # last.args["cc_email_address"]

\* send_email called on its own: the one call of send_raw_email it makes
\* names the email_address of the invoice meta as its only destination.
SendEmailDestinations ==
    (last.op = "send_email") =>
        /\ Len(last.ses) = 1
        /\ last.ses[1].Destinations = <<last.args.self.invoice_meta["email_address"]>>

====
